---- MODULE Spec2Model ----
(***************************************************************************)
(* Model of server.js: the user collection (register, login) and the item  *)
(* collection (add, list, search, book, return) of the rental backend.     *)
(* Requests are handled one at a time in Spec: each action is one whole    *)
(* request handler, from reading req.body to sending the response.         *)
(*                                                                         *)
(* JavaScript values are records [t, s, n]: t is the type tag, s the       *)
(* characters of a string (a tuple of one-character strings), n the number *)
(* of a number, or the time value of a Date counted in days since the      *)
(* epoch (date-only strings denote UTC midnight).                          *)
(*                                                                         *)
(* users and items are the two collections in insertion order; now is the  *)
(* clock; route and res are the route of the last request and the response *)
(* it was given; registered records the email and password of every        *)
(* register request that succeeded; inflight holds, for each client of     *)
(* SpecRace, the request it has in a handler between two awaits.           *)
(***************************************************************************)
EXTENDS Integers, Sequences, FiniteSets, TLC

VARIABLES users, items, now, route, res, registered, inflight

vars == <<users, items, now, route, res, registered, inflight>>

(* ------------------------------ bounds -------------------------------- *)

\* Number of requests of a run; also the range of the clock behind Date.now.
MaxTime == 3

\* Number of item documents the collection may hold.
MaxItems == 2

(* ------------------------- JavaScript values -------------------------- *)

Undefined == [t |-> "undefined", s |-> <<>>, n |-> 0]

Null == [t |-> "null", s |-> <<>>, n |-> 0]

Str(chars) == [t |-> "string", s |-> chars, n |-> 0]

Num(k) == [t |-> "number", s |-> <<>>, n |-> k]

Bool(b) == [t |-> "boolean", s |-> <<>>, n |-> IF b THEN 1 ELSE 0]

DateVal(d) == [t |-> "date", s |-> <<>>, n |-> d]

InvalidDate == [t |-> "invalid date", s |-> <<>>, n |-> 0]

\* The document path holds no value: absent (undefined) or null.
Unset(v) == v.t \in {"undefined", "null"}

\* !v is false: what the handlers' presence checks accept.
Truthy(v) ==
    CASE v.t = "string" -> v.s # <<>>
      [] v.t = "number" -> v.n # 0
      [] v.t = "boolean" -> v.n = 1
      [] v.t \in {"undefined", "null"} -> FALSE
      [] OTHER -> TRUE

Rep(c, k) == [i \in 1..k |-> c]

IsDigit(c) == c \in {"0", "1", "2", "3", "4", "5", "6", "7", "8", "9"}

DigitVal(c) ==
    CASE c = "0" -> 0 [] c = "1" -> 1 [] c = "2" -> 2 [] c = "3" -> 3
      [] c = "4" -> 4 [] c = "5" -> 5 [] c = "6" -> 6 [] c = "7" -> 7
      [] c = "8" -> 8 [] c = "9" -> 9

RECURSIVE DecimalVal(_)
DecimalVal(chars) ==
    IF chars = <<>> THEN 0
    ELSE 10 * DecimalVal(SubSeq(chars, 1, Len(chars) - 1))
         + DigitVal(chars[Len(chars)])

AllDigits(chars) == chars # <<>> /\ \A i \in 1..Len(chars) : IsDigit(chars[i])

(* ------------------------------- dates -------------------------------- *)

\* Days from 1970-01-01 to day d of month m of year y (proleptic Gregorian);
\* a day past the end of the month runs on into the next one.
DaysFromCivil(y, m, d) ==
    LET yy == IF m <= 2 THEN y - 1 ELSE y
        era == yy \div 400
        yoe == yy - era * 400
        mp == IF m > 2 THEN m - 3 ELSE m + 9
        doy == (153 * mp + 2) \div 5 + d - 1
        doe == yoe * 365 + yoe \div 4 - yoe \div 100 + doy
    IN era * 146097 + doe - 719468

\* Date.parse on the date-only form YYYY-MM-DD; any other text is NaN here.
DateParse(chars) ==
    IF /\ Len(chars) = 10
       /\ chars[5] = "-" /\ chars[8] = "-"
       /\ \A i \in {1, 2, 3, 4, 6, 7, 9, 10} : IsDigit(chars[i])
    THEN LET y == DecimalVal(SubSeq(chars, 1, 4))
             m == DecimalVal(SubSeq(chars, 6, 7))
             d == DecimalVal(SubSeq(chars, 9, 10))
         IN IF m \in 1..12 /\ d \in 1..31
            THEN DateVal(DaysFromCivil(y, m, d))
            ELSE InvalidDate
    ELSE InvalidDate

\* new Date(v) for the values a JSON body can hold in startDate / endDate.
NewDate(v) ==
    CASE v.t = "undefined" -> InvalidDate
      [] v.t = "null" -> DateVal(0)
      [] v.t = "string" -> DateParse(v.s)
      [] v.t \in {"date", "invalid date"} -> v

(* ------------------------- mongoose schemas --------------------------- *)

\* Mutant of CastDateOk: a Date whose time value is NaN passes the cast.
CastDateOkAny(v) == TRUE

\* SchemaDate cast: null and undefined pass through, a valid Date is kept,
\* a Date whose time value is NaN raises a CastError.
CastDateOk(v) == v.t \in {"undefined", "null", "date"}

\* SchemaNumber cast: a number is kept, a string must read as a number.
CastNumberOk(v) ==
    \/ v.t \in {"undefined", "null", "number"}
    \/ v.t = "string" /\ (v.s = <<>> \/ AllDigits(v.s))

CastNumber(v) ==
    IF v.t = "string"
    THEN (IF v.s = <<>> THEN Null ELSE Num(DecimalVal(v.s)))
    ELSE v

\* Mutant of NewItem: the whole request body reaches the document.
NewItemFromBody(body, t) ==
    [title |-> body.title.s,
     description |-> body.description,
     pricePerDay |-> CastNumber(body.pricePerDay).n,
     category |-> body.category.s,
     imageUrl |-> body.imageUrl,
     available |-> IF body.available.t = "boolean" THEN body.available.n = 1 ELSE TRUE,
     ownerEmail |-> body.ownerEmail.s,
     rentedFrom |-> IF Unset(body.rentedFrom) THEN body.rentedFrom
                    ELSE NewDate(body.rentedFrom),
     rentedTill |-> IF Unset(body.rentedTill) THEN body.rentedTill
                    ELSE NewDate(body.rentedTill),
     createdAt |-> t]

\* new Item({title, description, pricePerDay, category, imageUrl, ownerEmail}):
\* only the six destructured fields reach the document; available and
\* createdAt take their schema defaults and the rental dates have none.
NewItem(body, t) ==
    [title |-> body.title.s,
     description |-> body.description,
     pricePerDay |-> CastNumber(body.pricePerDay).n,
     category |-> body.category.s,
     imageUrl |-> body.imageUrl,
     available |-> TRUE,
     ownerEmail |-> body.ownerEmail.s,
     rentedFrom |-> Undefined,
     rentedTill |-> Undefined,
     createdAt |-> t]

\* Document validation run by save() on a new item.
NewItemValid(body) == CastNumberOk(body.pricePerDay)

\* The presence check of POST /items.
AddItemMissing(body) ==
    \/ ~Truthy(body.title)
    \/ ~Truthy(body.pricePerDay)
    \/ ~Truthy(body.category)
    \/ ~Truthy(body.ownerEmail)

\* Mutant of BookedItem: the dates are set but the item is left available.
BookedItemStillAvailable(item, from, till) ==
    [item EXCEPT !.rentedFrom = from, !.rentedTill = till]

\* Mutant of BookedItem: booking also stamps the item anew from the start date.
BookedItemRestamped(item, from, till) ==
    [item EXCEPT !.available = FALSE, !.rentedFrom = from, !.rentedTill = till,
                 !.createdAt = from.n + 1]

\* The assignments of POST /items/:id/book to the loaded document.
BookedItem(item, from, till) ==
    [item EXCEPT !.available = FALSE, !.rentedFrom = from, !.rentedTill = till]

\* save() of the booked document validates the two Date paths.
BookedItemValid(from, till) == CastDateOk(from) /\ CastDateOk(till)

\* Mutant of ReturnedItem: rentedTill is not cleared.
ReturnedItemKeepsTill(item) ==
    [item EXCEPT !.available = TRUE, !.rentedFrom = Null]

\* Mutant of ReturnedItem: the title is lost with the dates.
ReturnedItemDropsTitle(item) ==
    [item EXCEPT !.available = TRUE, !.rentedFrom = Null, !.rentedTill = Null,
                 !.title = <<>>]

\* The assignments of POST /items/:id/return to the loaded document.
ReturnedItem(item) ==
    [item EXCEPT !.available = TRUE, !.rentedFrom = Null, !.rentedTill = Null]

\* Mutant of SaveItem: the document is written before it is validated.
SaveItemUnvalidated(coll, id, doc, valid) == [coll EXCEPT ![id] = doc]

\* Mutant of SaveItem: the update has no _id filter and rewrites every item.
SaveItemEverywhere(coll, id, doc, valid) ==
    IF valid THEN [j \in 1..Len(coll) |-> doc] ELSE coll

\* item.save() of a loaded document: a validation error rejects the save and
\* nothing is written.
SaveItem(coll, id, doc, valid) ==
    IF valid THEN [coll EXCEPT ![id] = doc] ELSE coll

\* The paths of a loaded document that its assignments changed.
ModifiedPaths(loaded, doc) ==
    {f \in {"available", "rentedFrom", "rentedTill"} : doc[f] # loaded[f]}

\* Mutant of SaveModified: the update tests that the stored item is as loaded.
SaveIfUnchanged(coll, id, loaded, doc, valid) ==
    IF valid /\ coll[id] = loaded THEN [coll EXCEPT ![id] = doc] ELSE coll

\* item.save() of a document loaded earlier: after validation it sets the
\* modified paths, and only those, on the stored document of that id.
SaveModified(coll, id, loaded, doc, valid) ==
    IF valid
    THEN [coll EXCEPT ![id] =
            [f \in DOMAIN @ |-> IF f \in ModifiedPaths(loaded, doc)
                                THEN doc[f] ELSE @[f]]]
    ELSE coll

\* Mutant of InsertUser: the collection has no unique index on email.
InsertUserUnindexed(coll, doc) == Append(coll, doc)

\* new User(...).save(): the unique index on email rejects a second document
\* with the same email (nothing is inserted).
InsertUser(coll, doc) ==
    IF \E i \in 1..Len(coll) : coll[i].email = doc.email
    THEN coll
    ELSE Append(coll, doc)

\* An id findById can cast to an ObjectId; the k-th saved item has id k.
BadId == 0

ValidObjectId(id) == id # BadId

ItemExists(coll, id) == id \in 1..Len(coll)

(* ------------------------------ bcryptjs ------------------------------ *)

\* Cost factor passed to bcrypt.hash.
BcryptRounds == 8

\* Number of key bytes the bcrypt key schedule reads.
BcryptKeyBytes == 72

\* The key is the password followed by a NUL byte, read cyclically.
ExpandKey(pw) ==
    LET k == pw \o <<"NUL">>
    IN [i \in 1..BcryptKeyBytes |-> k[((i - 1) % Len(k)) + 1]]

BcryptHash(pw, salt, rounds) ==
    [salt |-> salt, rounds |-> rounds, key |-> ExpandKey(pw)]

\* bcrypt.compare re-hashes the candidate with the salt and cost of the hash.
BcryptCompare(pw, hash) == BcryptHash(pw, hash.salt, hash.rounds) = hash

(* ------------------------------ responses ----------------------------- *)

Response(status, msg) ==
    [status |-> status, msg |-> msg, itemId |-> BadId, found |-> <<>>]

Created(msg, id) == [status |-> 201, msg |-> msg, itemId |-> id, found |-> <<>>]

\* res.json(docs): the documents a query found, each named by its id, in the
\* order of the collection.
Found(ids) == [status |-> 200, msg |-> "", itemId |-> BadId, found |-> ids]

\* The error kind a response stands for.
Kind(r) ==
    CASE r.status \in {200, 201} -> "Success"
      [] r.status = 500 -> "InternalError"
      [] r.status = 404 -> "NotFoundError"
      [] r.msg = "User already exists" -> "DuplicateError"
      [] r.msg = "Item already rented" -> "ConflictError"
      [] r.msg = "Invalid email or password" -> "AuthError"
      [] OTHER -> "ValidationError"

Failed(r) == Kind(r) # "Success"

(* ---------------------------- request inputs -------------------------- *)

EmailA == <<"a", "@", "x">>

EmailB == <<"b", "@", "x">>

EmailInputs == {Undefined, Str(EmailA), Str(EmailB)}

\* A password as long as the bcrypt key, and one a byte longer.
LongPassword == Rep("a", BcryptKeyBytes)

PasswordInputs ==
    {Undefined, Str(<<"a">>), Str(<<"b">>),
     Str(LongPassword), Str(LongPassword \o <<"b">>)}

Salts == {1, 2}

\* Mutant of UsersWith: the lookup finds nobody.
UsersWithNobody(coll, email) == {}

\* The documents User.findOne({email}) can return.
UsersWith(coll, email) == {i \in 1..Len(coll) : coll[i].email = email}

Date1 == <<"2", "0", "2", "4", "-", "0", "1", "-", "0", "1">>

Date2 == <<"2", "0", "2", "4", "-", "0", "1", "-", "0", "5">>

NotADate == <<"s", "o", "o", "n">>

\* The Ladder of the example flow, with only the required fields.
LadderBody ==
    [title |-> Str(<<"L", "a", "d", "d", "e", "r">>), description |-> Undefined,
     pricePerDay |-> Num(10), category |-> Str(<<"t", "o", "o", "l", "s">>),
     imageUrl |-> Undefined, ownerEmail |-> Str(EmailA),
     available |-> Undefined, rentedFrom |-> Undefined, rentedTill |-> Undefined]

\* POST /items bodies: the Ladder, the Ladder with one required field missing
\* or empty, with other prices, with the optional fields, and with fields
\* beyond the six the handler reads.
AddItemBodies ==
    {LadderBody,
     [LadderBody EXCEPT !.title = Undefined],
     [LadderBody EXCEPT !.pricePerDay = Undefined],
     [LadderBody EXCEPT !.category = Str(<<>>)],
     [LadderBody EXCEPT !.ownerEmail = Undefined],
     [LadderBody EXCEPT !.pricePerDay = Num(0)],
     [LadderBody EXCEPT !.pricePerDay = Str(<<"5">>)],
     [LadderBody EXCEPT !.pricePerDay = Str(<<"a", "b", "c">>)],
     [LadderBody EXCEPT !.description = Str(<<"t", "a", "l", "l">>),
                        !.imageUrl = Str(<<"u">>)],
     [LadderBody EXCEPT !.available = Bool(FALSE), !.rentedFrom = Str(Date1),
                        !.rentedTill = Str(Date2)]}

\* startDate and endDate of POST /items/:id/book bodies.
DateInputs ==
    {<<Str(Date1), Str(Date2)>>, <<Str(Date2), Str(Date1)>>,
     <<Str(NotADate), Str(Date2)>>, <<Str(Date1), Undefined>>,
     <<Null, Str(Date1)>>}

IdInputs == {BadId} \cup (1..(MaxItems + 1))

NoQuery ==
    [category |-> Undefined, minPrice |-> Undefined, maxPrice |-> Undefined,
     available |-> Undefined, ownerEmail |-> Undefined]

Tools == <<"t", "o", "o", "l", "s">>

\* req.query of GET /items: no filter, the filter of the example, and the two
\* availability filters.
ListInputs ==
    {NoQuery,
     [NoQuery EXCEPT !.category = Str(Tools), !.minPrice = Str(<<"5">>),
                     !.maxPrice = Str(<<"2", "0">>)],
     [NoQuery EXCEPT !.available = Str(<<"t", "r", "u", "e">>)],
     [NoQuery EXCEPT !.available = Str(<<"f", "a", "l", "s", "e">>)]}

\* req.query.q of GET /items/search.
SearchInputs == {Str(<<>>), Str(<<"L", "A", "D">>), Str(<<".">>)}

(* ------------------------------- queries ------------------------------ *)

NaN == [t |-> "NaN", s |-> <<>>, n |-> 0]

\* Number(v) of a query-string value.
NumberOf(v) ==
    IF v.t = "string"
    THEN (IF v.s = <<>> THEN Num(0)
          ELSE IF AllDigits(v.s) THEN Num(DecimalVal(v.s)) ELSE NaN)
    ELSE IF v.t = "number" THEN v ELSE NaN

\* The filter GET /items builds from req.query.
ItemFilter(query) ==
    [category |-> IF Truthy(query.category) THEN query.category ELSE Undefined,
     available |-> IF query.available # Undefined
                   THEN Bool(query.available = Str(<<"t", "r", "u", "e">>))
                   ELSE Undefined,
     ownerEmail |-> IF Truthy(query.ownerEmail) THEN query.ownerEmail ELSE Undefined,
     gte |-> IF Truthy(query.minPrice) THEN NumberOf(query.minPrice) ELSE Undefined,
     lte |-> IF Truthy(query.maxPrice) THEN NumberOf(query.maxPrice) ELSE Undefined]

\* Item.find casts the filter to the schema: NaN is no Number.
FilterValid(filter) == filter.gte # NaN /\ filter.lte # NaN

\* Mutant of PriceInRange: the upper bound is exclusive.
PriceBelowMax(price, gte, lte) ==
    /\ gte # Undefined => price >= gte.n
    /\ lte # Undefined => price < lte.n

\* pricePerDay: { $gte, $lte }
PriceInRange(price, gte, lte) ==
    /\ gte # Undefined => price >= gte.n
    /\ lte # Undefined => price <= lte.n

\* A document matches every field the filter holds.
MatchesFilter(item, filter) ==
    /\ filter.category # Undefined => item.category = filter.category.s
    /\ filter.available # Undefined => item.available = (filter.available.n = 1)
    /\ filter.ownerEmail # Undefined => item.ownerEmail = filter.ownerEmail.s
    /\ PriceInRange(item.pricePerDay, filter.gte, filter.lte)

\* The ids of a collection in its order.
IdSeq(coll) == [i \in 1..Len(coll) |-> i]

\* The response of GET /items.
ListResponse(coll, query) ==
    LET filter == ItemFilter(query)
    IN IF FilterValid(filter)
       THEN Found(SelectSeq(IdSeq(coll), LAMBDA i : MatchesFilter(coll[i], filter)))
       ELSE Response(500, "Server error")

UpperCase ==
    <<"A", "B", "C", "D", "E", "F", "G", "H", "I", "J", "K", "L", "M",
      "N", "O", "P", "Q", "R", "S", "T", "U", "V", "W", "X", "Y", "Z">>

LowerCase ==
    <<"a", "b", "c", "d", "e", "f", "g", "h", "i", "j", "k", "l", "m",
      "n", "o", "p", "q", "r", "s", "t", "u", "v", "w", "x", "y", "z">>

\* The character with its letter case folded, as the i option compares it.
Fold(c) ==
    IF \E k \in 1..26 : UpperCase[k] = c
    THEN LowerCase[CHOOSE k \in 1..26 : UpperCase[k] = c]
    ELSE c

\* One pattern character against one character: a dot matches any character,
\* any other pattern character here is a literal.
RegexCharMatches(p, c) == p = "." \/ Fold(p) = Fold(c)

\* { $regex: q, $options: "i" }: the pattern matches somewhere in the text
\* (patterns of literals and dots).
RegexMatches(q, text) ==
    \E k \in 0..(Len(text) - Len(q)) :
        \A j \in 1..Len(q) : RegexCharMatches(q[j], text[k + j])

\* The response of GET /items/search.
SearchResponse(coll, q) ==
    Found(SelectSeq(IdSeq(coll), LAMBDA i : RegexMatches(q.s, coll[i].title)))

(* ------------------------------- state -------------------------------- *)

\* The clients whose requests may be in handlers at the same time.
Clients == {1, 2}

\* A client with no request in a handler, and the response it got last.
Answered(r, id, loaded, answer) ==
    [pc |-> "idle", route |-> r, id |-> id, loaded |-> loaded, doc |-> loaded,
     valid |-> TRUE, email |-> <<>>, password |-> <<>>, res |-> answer]

Idle == Answered("", BadId, Undefined, Response(0, ""))

\* A client whose handler awaits item.save().
Saving(r, id, loaded, doc, valid) ==
    [pc |-> "save", route |-> r, id |-> id, loaded |-> loaded, doc |-> doc,
     valid |-> valid, email |-> <<>>, password |-> <<>>, res |-> Response(0, "")]

\* A client whose handler awaits bcrypt.hash and the save of the new user.
Hashing(email, password) ==
    [pc |-> "hash", route |-> "POST /register", id |-> BadId, loaded |-> Undefined,
     doc |-> Undefined, valid |-> TRUE, email |-> email, password |-> password,
     res |-> Response(0, "")]

Init ==
    /\ users = <<>>
    /\ items = <<>>
    /\ now = 0
    /\ route = ""
    /\ res = Response(0, "")
    /\ registered = {}
    /\ inflight = [c \in Clients |-> Idle]

(* ------------------------------ handlers ------------------------------ *)

\* POST /register
Register(email, password, salt) ==
    /\ now < MaxTime
    /\ now' = now + 1
    /\ route' = "POST /register"
    /\ UNCHANGED inflight
    /\ UNCHANGED items
    /\ IF ~Truthy(email) \/ ~Truthy(password)
       THEN /\ res' = Response(400, "Email and password required")
            /\ UNCHANGED <<users, registered>>
       ELSE IF UsersWith(users, email.s) # {}
       THEN /\ res' = Response(400, "User already exists")
            /\ UNCHANGED <<users, registered>>
       ELSE /\ users' = Append(users, [email |-> email.s,
                           password |-> BcryptHash(password.s, salt, BcryptRounds)])
            /\ registered' = registered \cup
                   {[email |-> email.s, password |-> password.s]}
            /\ res' = Response(201, "User registered successfully")

\* The response of POST /login against the user collection coll.
LoginResponse(coll, email, password) ==
    IF ~Truthy(email) \/ ~Truthy(password)
    THEN Response(400, "Email and password required")
    ELSE IF UsersWith(coll, email.s) = {}
    THEN Response(400, "Invalid email or password")
    ELSE LET user == coll[CHOOSE i \in UsersWith(coll, email.s) :
                            \A j \in UsersWith(coll, email.s) : i <= j]
         IN IF ~BcryptCompare(password.s, user.password)
            THEN Response(400, "Invalid email or password")
            ELSE Response(200, "Login successful")

\* POST /login
Login(email, password) ==
    /\ now < MaxTime
    /\ now' = now + 1
    /\ route' = "POST /login"
    /\ UNCHANGED inflight
    /\ res' = LoginResponse(users, email, password)
    /\ UNCHANGED <<users, items, registered>>

\* POST /items
AddItem(body) ==
    /\ now < MaxTime
    /\ now' = now + 1
    /\ route' = "POST /items"
    /\ UNCHANGED inflight
    /\ UNCHANGED <<users, registered>>
    /\ IF AddItemMissing(body)
       THEN /\ res' = Response(400, "Missing required fields")
            /\ UNCHANGED items
       ELSE IF ~NewItemValid(body)
       THEN /\ res' = Response(500, "Server error")
            /\ UNCHANGED items
       ELSE /\ Len(items) < MaxItems
            /\ items' = Append(items, NewItem(body, now))
            /\ res' = Created("Item added successfully", Len(items) + 1)

\* POST /items/:id/book
BookItem(id, startDate, endDate) ==
    /\ now < MaxTime
    /\ now' = now + 1
    /\ route' = "POST /items/:id/book"
    /\ UNCHANGED inflight
    /\ UNCHANGED <<users, registered>>
    /\ IF ~ValidObjectId(id)
       THEN /\ res' = Response(500, "Server error")
            /\ UNCHANGED items
       ELSE IF ~ItemExists(items, id)
       THEN /\ res' = Response(404, "Item not found")
            /\ UNCHANGED items
       ELSE IF ~items[id].available
       THEN /\ res' = Response(400, "Item already rented")
            /\ UNCHANGED items
       ELSE LET from == NewDate(startDate)
                till == NewDate(endDate)
                valid == BookedItemValid(from, till)
            IN /\ items' = SaveItem(items, id, BookedItem(items[id], from, till), valid)
               /\ res' = IF valid
                         THEN Response(200, "Item booked successfully")
                         ELSE Response(500, "Server error")

\* POST /items/:id/return
ReturnItem(id) ==
    /\ now < MaxTime
    /\ now' = now + 1
    /\ route' = "POST /items/:id/return"
    /\ UNCHANGED inflight
    /\ UNCHANGED <<users, registered>>
    /\ IF ~ValidObjectId(id)
       THEN /\ res' = Response(500, "Server error")
            /\ UNCHANGED items
       ELSE IF ~ItemExists(items, id)
       THEN /\ res' = Response(404, "Item not found")
            /\ UNCHANGED items
       ELSE /\ items' = SaveItem(items, id, ReturnedItem(items[id]), TRUE)
            /\ res' = Response(200, "Item returned successfully")

\* GET /items
ListItems(query) ==
    /\ now < MaxTime
    /\ now' = now + 1
    /\ route' = "GET /items"
    /\ UNCHANGED inflight
    /\ res' = ListResponse(items, query)
    /\ UNCHANGED <<users, items, registered>>

\* GET /items/search
SearchItems(q) ==
    /\ now < MaxTime
    /\ now' = now + 1
    /\ route' = "GET /items/search"
    /\ UNCHANGED inflight
    /\ res' = SearchResponse(items, q)
    /\ UNCHANGED <<users, items, registered>>

Next ==
    \/ \E e \in EmailInputs, p \in PasswordInputs, s \in Salts : Register(e, p, s)
    \/ \E e \in EmailInputs, p \in PasswordInputs : Login(e, p)
    \/ \E b \in AddItemBodies : AddItem(b)
    \/ \E i \in IdInputs, d \in DateInputs : BookItem(i, d[1], d[2])
    \/ \E i \in IdInputs : ReturnItem(i)
    \/ \E q \in ListInputs : ListItems(q)
    \/ \E q \in SearchInputs : SearchItems(q)

Spec == Init /\ [][Next]_vars

(* ------------------------ interleaved requests ------------------------ *)

Answer(c, r, id, loaded, answer) ==
    /\ inflight' = [inflight EXCEPT ![c] = Answered(r, id, loaded, answer)]
    /\ route' = r
    /\ res' = answer

\* POST /items/:id/book up to its await item.save()
BookFind(c, id, startDate, endDate) ==
    /\ inflight[c].pc = "idle"
    /\ now < MaxTime
    /\ now' = now + 1
    /\ UNCHANGED <<users, items, registered>>
    /\ IF ~ValidObjectId(id)
       THEN Answer(c, "POST /items/:id/book", id, Undefined,
                   Response(500, "Server error"))
       ELSE IF ~ItemExists(items, id)
       THEN Answer(c, "POST /items/:id/book", id, Undefined,
                   Response(404, "Item not found"))
       ELSE IF ~items[id].available
       THEN Answer(c, "POST /items/:id/book", id, items[id],
                   Response(400, "Item already rented"))
       ELSE LET from == NewDate(startDate)
                till == NewDate(endDate)
            IN /\ inflight' = [inflight EXCEPT ![c] =
                     Saving("POST /items/:id/book", id, items[id],
                            BookedItem(items[id], from, till),
                            BookedItemValid(from, till))]
               /\ UNCHANGED <<route, res>>

\* POST /items/:id/return up to its await item.save()
ReturnFind(c, id) ==
    /\ inflight[c].pc = "idle"
    /\ now < MaxTime
    /\ now' = now + 1
    /\ UNCHANGED <<users, items, registered>>
    /\ IF ~ValidObjectId(id)
       THEN Answer(c, "POST /items/:id/return", id, Undefined,
                   Response(500, "Server error"))
       ELSE IF ~ItemExists(items, id)
       THEN Answer(c, "POST /items/:id/return", id, Undefined,
                   Response(404, "Item not found"))
       ELSE /\ inflight' = [inflight EXCEPT ![c] =
                  Saving("POST /items/:id/return", id, items[id],
                         ReturnedItem(items[id]), TRUE)]
            /\ UNCHANGED <<route, res>>

\* await item.save() and the response of the book and return handlers
ItemSave(c) ==
    LET r == inflight[c]
    IN /\ r.pc = "save"
       /\ items' = SaveModified(items, r.id, r.loaded, r.doc, r.valid)
       /\ Answer(c, r.route, r.id, r.loaded,
                 IF ~r.valid THEN Response(500, "Server error")
                 ELSE IF r.route = "POST /items/:id/book"
                 THEN Response(200, "Item booked successfully")
                 ELSE Response(200, "Item returned successfully"))
       /\ UNCHANGED <<users, now, registered>>

\* POST /register up to its await bcrypt.hash
RegisterFind(c, email, password) ==
    /\ inflight[c].pc = "idle"
    /\ now < MaxTime
    /\ now' = now + 1
    /\ UNCHANGED <<users, items, registered>>
    /\ IF ~Truthy(email) \/ ~Truthy(password)
       THEN Answer(c, "POST /register", BadId, Undefined,
                   Response(400, "Email and password required"))
       ELSE IF UsersWith(users, email.s) # {}
       THEN Answer(c, "POST /register", BadId, Undefined,
                   Response(400, "User already exists"))
       ELSE /\ inflight' = [inflight EXCEPT ![c] = Hashing(email.s, password.s)]
            /\ UNCHANGED <<route, res>>

\* bcrypt.hash, new User(...).save() and the response of the register handler
RegisterSave(c, salt) ==
    LET r == inflight[c]
        doc == [email |-> r.email,
                password |-> BcryptHash(r.password, salt, BcryptRounds)]
        saved == InsertUser(users, doc)
    IN /\ r.pc = "hash"
       /\ users' = saved
       /\ IF saved = users
          THEN /\ Answer(c, "POST /register", BadId, Undefined,
                         Response(500, "Server error"))
               /\ UNCHANGED registered
          ELSE /\ Answer(c, "POST /register", BadId, Undefined,
                         Response(201, "User registered successfully"))
               /\ registered' = registered \cup
                      {[email |-> r.email, password |-> r.password]}
       /\ UNCHANGED <<items, now>>

RaceDates == {<<Str(Date1), Str(Date2)>>, <<Str(Date2), Str(Date1)>>,
              <<Str(NotADate), Str(Date2)>>}

RaceEmails == {Str(EmailA), Str(EmailB)}

RacePasswords == {Str(<<"a">>), Str(<<"b">>)}

NextRace ==
    \/ AddItem(LadderBody)
    \/ \E c \in Clients, i \in 1..MaxItems, d \in RaceDates : BookFind(c, i, d[1], d[2])
    \/ \E c \in Clients, i \in 1..MaxItems : ReturnFind(c, i)
    \/ \E c \in Clients : ItemSave(c)
    \/ \E c \in Clients, e \in RaceEmails, p \in RacePasswords : RegisterFind(c, e, p)
    \/ \E c \in Clients, s \in Salts : RegisterSave(c, s)

\* Requests of the clients interleave at the awaits of their handlers.
SpecRace == Init /\ [][NextRace]_vars

(* ------------------- queries over given collections ------------------ *)

Camp == <<"c", "a", "m", "p">>

StockBody(title, price, category, owner) ==
    [LadderBody EXCEPT !.title = Str(title), !.pricePerDay = Num(price),
                       !.category = Str(category), !.ownerEmail = Str(owner)]

Booked(item) == BookedItem(item, NewDate(Str(Date1)), NewDate(Str(Date2)))

\* Stored items as POST /items and POST /items/:id/book leave them: prices
\* below, at, inside and above the range 5..20, two categories, two owners.
StockItems ==
    {NewItem(StockBody(<<"H", "a", "n", "d", " ", "s", "a", "w">>, 4, Tools, EmailA), 0),
     NewItem(StockBody(<<"P", "o", "w", "e", "r", " ", "D", "r", "i", "l", "l">>,
                       5, Tools, EmailA), 0),
     Booked(NewItem(LadderBody, 0)),
     Booked(NewItem(StockBody(<<"D", "R", "I", "L", "L", "I", "N", "G", " ", "k", "i", "t">>,
                              20, Tools, EmailB), 0)),
     NewItem(StockBody(<<"T", "e", "n", "t">>, 10, Camp, EmailA), 0),
     NewItem(StockBody(<<"S", "a", "n", "d", "e", "r">>, 21, Tools, EmailB), 0)}

StockCollections == UNION {[1..k -> StockItems] : k \in 0..MaxItems}

StockListInputs ==
    {[category |-> ca, minPrice |-> mi, maxPrice |-> ma, available |-> av,
      ownerEmail |-> ow] :
        ca \in {Undefined, Str(Tools), Str(Camp)},
        mi \in {Undefined, Str(<<"0">>), Str(<<"5">>)},
        ma \in {Undefined, Str(<<"2", "0">>)},
        av \in {Undefined, Str(<<"t", "r", "u", "e">>), Str(<<"f", "a", "l", "s", "e">>)},
        ow \in {Undefined, Str(EmailA)}}

StockSearchInputs ==
    {Str(<<>>), Str(<<"d", "r", "i", "l", "l">>), Str(<<"D", "r", "I", "l", "L">>),
     Str(<<"s", "a">>), Str(<<"n", "t">>), Str(<<".">>), Str(<<"s", ".", "w">>)}

\* The collection holds any stock and one request is answered.
InitQuery ==
    /\ users = <<>>
    /\ items \in StockCollections
    /\ now = MaxTime - 1
    /\ route = ""
    /\ res = Response(0, "")
    /\ registered = {}
    /\ inflight = [c \in Clients |-> Idle]

NextQuery ==
    \/ \E q \in StockListInputs : ListItems(q)
    \/ \E q \in StockSearchInputs : SearchItems(q)

SpecQuery == InitQuery /\ [][NextQuery]_vars

(* ------------------------------- claims ------------------------------- *)

\* The step is a request to the route (every handler sets route).
Booking == route' = "POST /items/:id/book"

Returning == route' = "POST /items/:id/return"

Registering == route' = "POST /register"

LoggingIn == route' = "POST /login"

Adding == route' = "POST /items"

Searching == route' = "GET /items/search"

IsDate(v) == v.t = "date"

Known(id) == ValidObjectId(id) /\ ItemExists(items, id)

\* The fields of an item that booking and returning do not touch.
Listing(item) ==
    <<item.title, item.description, item.pricePerDay, item.category,
      item.imageUrl, item.ownerEmail, item.createdAt>>

C2_ReturnNoOp ==
    [][\A i \in IdInputs :
         (Returning /\ ReturnItem(i) /\ Known(i))
         => /\ Kind(res') = "Success"
            /\ items'[i].available
            /\ Unset(items'[i].rentedFrom) /\ Unset(items'[i].rentedTill)
            /\ items[i].available => items' = items]_vars

\* C2 amended: returnItem on an existing item succeeds and leaves it available
\* with both dates unset (null), every other field of it and every other item
\* as they were; an available item whose dates were already null is stored
\* exactly as it was, one whose dates were absent gets them as null.
C2_ReturnClears ==
    [][\A i \in IdInputs :
         (Returning /\ ReturnItem(i) /\ Known(i))
         => /\ Kind(res') = "Success"
            /\ items'[i].available
            /\ Unset(items'[i].rentedFrom) /\ Unset(items'[i].rentedTill)
            /\ items'[i].rentedFrom = Null /\ items'[i].rentedTill = Null
            /\ Listing(items'[i]) = Listing(items[i])
            /\ Len(items') = Len(items)
            /\ \A j \in 1..Len(items) : j # i => items'[j] = items[j]
            /\ (items[i].available /\ items[i].rentedFrom = Null
                  /\ items[i].rentedTill = Null) => items' = items]_vars

\* An item was returned: it is available and its dates are null.
C2_Witness ==
    /\ res.msg = "Item returned successfully"
    /\ \E i \in 1..Len(items) :
         items[i].available /\ items[i].rentedFrom = Null

\* C3: every stored item that is not available has rentedFrom and rentedTill
\* set, and every stored item that is available has both unset.
C3_DatesFollowAvailability ==
    \A i \in 1..Len(items) :
        IF items[i].available
        THEN Unset(items[i].rentedFrom) /\ Unset(items[i].rentedTill)
        ELSE IsDate(items[i].rentedFrom) /\ IsDate(items[i].rentedTill)

\* An item has just been booked and holds both dates.
C3_Witness ==
    /\ res.msg = "Item booked successfully"
    /\ \E i \in 1..Len(items) :
         ~items[i].available /\ IsDate(items[i].rentedFrom) /\ IsDate(items[i].rentedTill)

\* The user records that hold the email.
RecordsOf(coll, email) == {i \in DOMAIN coll : coll[i].email = email}

\* C4: register with an email and a password on an email no user record has
\* succeeds and creates exactly one record, which holds that email; register on
\* an email a record has fails with DuplicateError and creates none.
C4_SecondRegisterRejected ==
    [][\A e \in EmailInputs, p \in PasswordInputs, s \in Salts :
         (Registering /\ Truthy(e) /\ Truthy(p) /\ Register(e, p, s))
         => IF RecordsOf(users, e.s) = {}
            THEN /\ Kind(res') = "Success"
                 /\ Len(users') = Len(users) + 1
                 /\ SubSeq(users', 1, Len(users)) = users
                 /\ Cardinality(RecordsOf(users', e.s)) = 1
            ELSE /\ Kind(res') = "DuplicateError"
                 /\ users' = users]_vars

\* The second register of an email was rejected and one record holds it.
C4_Witness ==
    /\ res.msg = "User already exists"
    /\ Len(users) = 1
    /\ Cardinality(registered) = 1

RegisteredEmails == {r.email : r \in registered}

\* C5 as stated: login with an email that was never registered and login with
\* a registered email and a password other than the registered one return the
\* same response, an AuthError.
C5_SameAuthError ==
    \A e1 \in EmailInputs, e2 \in EmailInputs, q \in PasswordInputs :
        (/\ Truthy(e1) /\ Truthy(e2) /\ Truthy(q)
         /\ e1.s \notin RegisteredEmails
         /\ \E r \in registered : r.email = e2.s /\ r.password # q.s)
        => /\ LoginResponse(users, e1, q) = LoginResponse(users, e2, q)
           /\ Kind(LoginResponse(users, e2, q)) = "AuthError"

\* C6 as stated: after a successful register(e, p) every login(e, p) succeeds
\* and every login(e, q) with q other than p fails with AuthError, and no step
\* changes or removes a user record.
C6_OnlyRegisteredPassword ==
    [][/\ \A e \in EmailInputs, q \in PasswordInputs :
            (/\ LoggingIn /\ Truthy(e) /\ Truthy(q)
             /\ e.s \in RegisteredEmails /\ Login(e, q))
            => IF [email |-> e.s, password |-> q.s] \in registered
               THEN Kind(res') = "Success"
               ELSE Kind(res') = "AuthError"
       /\ SubSeq(users', 1, Len(users)) = users]_vars

\* C7: a request answered with a failure leaves the user and item collections
\* exactly as they were.
C7_FailureChangesNothing ==
    [][Failed(res') => (users' = users /\ items' = items)]_vars

\* A bookItem was rejected with ConflictError on an item booked from
\* 2024-01-05 to 2024-01-01.
C7_Witness ==
    /\ Kind(res) = "ConflictError"
    /\ \E i \in 1..Len(items) :
         /\ items[i].rentedFrom = DateVal(19727)
         /\ items[i].rentedTill = DateVal(19723)

Missing(v) == v.t = "undefined" \/ (v.t = "string" /\ v.s = <<>>)

\* C9 as stated: addItem fails with ValidationError exactly when title,
\* pricePerDay, category or ownerEmail is missing, and with all four supplied
\* and a numeric pricePerDay (0 included) it stores exactly one new item and
\* returns its identifier.
C9_ValidationIffMissing ==
    [][\A b \in AddItemBodies :
         (Adding /\ AddItem(b))
         => LET missing == \/ Missing(b.title) \/ Missing(b.pricePerDay)
                           \/ Missing(b.category) \/ Missing(b.ownerEmail)
            IN /\ Kind(res') = "ValidationError" <=> missing
               /\ (~missing /\ b.pricePerDay.t = "number")
                  => /\ Len(items') = Len(items) + 1
                     /\ SubSeq(items', 1, Len(items)) = items
                     /\ res'.itemId = Len(items')]_vars

\* C10: the item a successful addItem has just stored is available and has
\* neither rentedFrom nor rentedTill, whatever the request body held.
C10_NewItemAvailable ==
    res.msg = "Item added successfully"
    => /\ res.itemId = Len(items)
       /\ items[res.itemId].available
       /\ Unset(items[res.itemId].rentedFrom)
       /\ Unset(items[res.itemId].rentedTill)

\* A second item has just been added.
C10_Witness ==
    /\ res.msg = "Item added successfully"
    /\ res.itemId = 2
    /\ Len(items) = 2

\* C11: in every step an existing item goes from available to not available
\* only by a bookItem on that item, which found it available, and from not
\* available to available only by a returnItem on that item; no step removes
\* an item or puts another one under its id.
C11_AvailabilityTransitions ==
    [][/\ Len(items') >= Len(items)
       /\ \A i \in 1..Len(items) :
            /\ Listing(items'[i]) = Listing(items[i])
            /\ (items[i].available /\ ~items'[i].available)
               => /\ Booking
                  /\ \E d \in DateInputs : BookItem(i, d[1], d[2])
            /\ (~items[i].available /\ items'[i].available)
               => (Returning /\ ReturnItem(i))]_vars

\* A bookItem has just taken one of two items; the other is still available.
C11_Witness ==
    /\ route = "POST /items/:id/book"
    /\ Kind(res) = "Success"
    /\ \E i, j \in 1..Len(items) : ~items[i].available /\ items[j].available

\* The number a price bound of the query string denotes.
Bound(v) == DecimalVal(v.s)

\* The item satisfies every filter field the query supplies.
Satisfies(item, q) ==
    /\ q.category.t = "string" => item.category = q.category.s
    /\ q.ownerEmail.t = "string" => item.ownerEmail = q.ownerEmail.s
    /\ q.available.t = "string"
       => (item.available <=> q.available.s = <<"t", "r", "u", "e">>)
    /\ q.minPrice.t = "string" => item.pricePerDay >= Bound(q.minPrice)
    /\ q.maxPrice.t = "string" => item.pricePerDay <= Bound(q.maxPrice)

\* C13: for every stored collection and every filter, listItems answers with
\* exactly the items that satisfy all supplied filter fields (category,
\* ownerEmail and available equal, price within both inclusive bounds); the
\* empty filter returns every item.
C13_ListReturnsMatching ==
    /\ \A q \in StockListInputs :
         /\ ListResponse(items, q).status = 200
         /\ ListResponse(items, q).found
              = SelectSeq(IdSeq(items), LAMBDA i : Satisfies(items[i], q))
    /\ ListResponse(items, NoQuery).found = IdSeq(items)

\* A list request returned one of two stored items.
C13_Witness ==
    /\ route = "GET /items"
    /\ Len(items) = 2
    /\ Len(res.found) = 1

\* The text holds the query as a substring when letter case is ignored.
ContainsIgnoringCase(text, q) ==
    \E k \in 0..(Len(text) - Len(q)) :
        \A j \in 1..Len(q) : Fold(text[k + j]) = Fold(q[j])

\* C14 as stated: for every stored collection and every query string,
\* searchItems answers with exactly the items whose title holds the query as a
\* substring, letter case ignored; the empty query returns every item.
C14_SearchReturnsSubstring ==
    [][\A q \in StockSearchInputs :
         (Searching /\ SearchItems(q))
         => res'.found
              = SelectSeq(IdSeq(items),
                          LAMBDA i : ContainsIgnoringCase(items[i].title, q.s))]_vars

(* C12: under interleaved requests no two user records ever have the same  *)
(* email, also when two register requests for one email both pass their    *)
(* existence check before either saves: the unique index rejects the       *)
(* second save.                                                            *)
C12_EmailsUnique ==
    \A i, j \in 1..Len(users) : users[i].email = users[j].email => i = j

\* Both clients passed the existence check for one email before either
\* saved; one save was accepted and the other rejected.
C12_Witness ==
    /\ \A c \in Clients : inflight[c].pc = "idle" /\ inflight[c].route = "POST /register"
    /\ {inflight[c].res.status : c \in Clients} = {201, 500}
    /\ Len(users) = 1

BookedBy(c, i) ==
    /\ inflight[c].pc = "idle"
    /\ inflight[c].route = "POST /items/:id/book"
    /\ inflight[c].id = i
    /\ inflight[c].res = Response(200, "Item booked successfully")

(* C15: a booking that passed the availability check saves its dates and   *)
(* answers success whatever was saved to the item since it was read, so    *)
(* two bookings that both read the item as available both succeed.         *)
C15_BookingSaveNeverRefused ==
    [][\A c \in Clients :
         (/\ route' = "POST /items/:id/book"
          /\ ItemSave(c)
          /\ inflight[c].route = "POST /items/:id/book"
          /\ inflight[c].valid)
         => /\ BookedBy(c, inflight[c].id)'
            /\ ~items'[inflight[c].id].available
            /\ items'[inflight[c].id].rentedFrom = inflight[c].doc.rentedFrom
            /\ items'[inflight[c].id].rentedTill = inflight[c].doc.rentedTill]_vars

\* Both clients booked the same item, each having read it as available and
\* never rented: a double booking.
C15_Witness ==
    \E i \in 1..Len(items) :
        /\ \A c \in Clients :
              /\ BookedBy(c, i)
              /\ inflight[c].loaded.available
              /\ inflight[c].loaded.rentedFrom = Undefined
        /\ ~items[i].available

(* C16: when a book and a return of one item interleave between their      *)
(* reads and their saves, the stored item is either unavailable with both  *)
(* rental dates set or available with both unset.                          *)
C16_InterleavedDatesFollowAvailability ==
    \A i \in 1..Len(items) :
        /\ ~items[i].available
           => IsDate(items[i].rentedFrom) /\ IsDate(items[i].rentedTill)
        /\ items[i].available
           => Unset(items[i].rentedFrom) /\ Unset(items[i].rentedTill)

(* C17: a book or a return of item i leaves every user record, every other *)
(* item and the title, description, pricePerDay, category, imageUrl,       *)
(* ownerEmail and createdAt of item i as they were.                        *)
C17_BookReturnFrame ==
    [][\A i \in IdInputs :
         (\/ Booking /\ \E d \in DateInputs : BookItem(i, d[1], d[2])
          \/ Returning /\ ReturnItem(i))
         => /\ users' = users
            /\ Len(items') = Len(items)
            /\ \A j \in 1..Len(items) :
                 /\ j # i => items'[j] = items[j]
                 /\ Listing(items'[j]) = Listing(items[j])]_vars

\* A booking succeeded on one of two items.
C17_Witness ==
    /\ route = "POST /items/:id/book"
    /\ res = Response(200, "Item booked successfully")
    /\ Len(items) = 2
    /\ \E i \in 1..Len(items) : IsDate(items[i].rentedFrom)

====
